---- MODULE Spec2Model ----
(***************************************************************************)
(* Model of src/diagrams/flowchart/flowDb.js: the in-memory flowchart      *)
(* database that the parser fills (addVertex, addLink, addSubGraph, ...)   *)
(* and the renderer reads (getVertices, getEdges, indexNodes, ...).        *)
(*                                                                         *)
(* JavaScript values.  A JS string is the sequence of its characters, each *)
(* a one-character TLA+ string ("ab" is <<"a","b">>, "" is <<>>).  The JS  *)
(* value undefined is the one-element sequence Undefined, whose element is *)
(* no single character, so it differs from every string.  A JS array is a  *)
(* sequence; JS index i is TLA+ index i+1.                                 *)
(*                                                                         *)
(* Ids.  vertices, classes, subGraphLookup and tooltips are plain objects  *)
(* used as maps.  The ids of the model are names that no object inherits   *)
(* from Object.prototype or Array.prototype ("constructor", "length", ...),*)
(* so a lookup of an unregistered id yields undefined, as the code assumes.*)
(***************************************************************************)
EXTENDS Integers, Sequences, FiniteSets, TLC

(***************************************************************************)
(* Strings                                                                 *)
(***************************************************************************)
Undefined == <<"undefined">>

Digits == {"0", "1", "2", "3", "4", "5", "6", "7", "8", "9"}

\* \s of the regular expressions and the characters trim() removes
WhiteSpace == {" ", "\t", "\n"}

DigitChar == <<"0", "1", "2", "3", "4", "5", "6", "7", "8", "9">>

\* number -> decimal string, as 'subGraph' + subCount converts it
RECURSIVE NumToStr(_)
NumToStr(n) ==
    IF n < 10 THEN <<DigitChar[n + 1]>>
    ELSE NumToStr(n \div 10) \o <<DigitChar[(n % 10) + 1]>>

\* decimal string -> number, as edges[pos] converts a canonical index key
RECURSIVE StrToNum(_)
StrToNum(s) ==
    IF s = <<>> THEN 0
    ELSE 10 * StrToNum(SubSeq(s, 1, Len(s) - 1))
         + (CHOOSE d \in 0..9 : DigitChar[d + 1] = s[Len(s)])

\* s is the canonical decimal spelling of an array index ("0", "7", "12")
IsIndexKey(s) ==
    /\ s # Undefined
    /\ Len(s) >= 1
    /\ \A i \in 1..Len(s) : s[i] \in Digits
    /\ (Len(s) > 1 => s[1] # "0")

RECURSIVE TrimLeft(_)
TrimLeft(s) ==
    IF s # <<>> /\ s[1] \in WhiteSpace THEN TrimLeft(Tail(s)) ELSE s

RECURSIVE TrimRight(_)
TrimRight(s) ==
    IF s # <<>> /\ s[Len(s)] \in WhiteSpace
    THEN TrimRight(SubSeq(s, 1, Len(s) - 1)) ELSE s

\* String.prototype.trim
Trim(s) == TrimRight(TrimLeft(s))

\* String.prototype.substring(a, b): the arguments are swapped when a > b
Substring(s, a, b) ==
    LET lo == IF a <= b THEN a ELSE b
        hi == IF a <= b THEN b ELSE a
    IN  SubSeq(s, lo + 1, hi)

StartsWithAt(s, i, pat) ==
    /\ i + Len(pat) - 1 <= Len(s)
    /\ SubSeq(s, i, i + Len(pat) - 1) = pat

\* str.replace(/pat/g, rep) for a literal, non-empty pattern
RECURSIVE ReplaceFrom(_, _, _, _)
ReplaceFrom(s, i, pat, rep) ==
    IF i > Len(s) THEN <<>>
    ELSE IF StartsWithAt(s, i, pat)
         THEN rep \o ReplaceFrom(s, i + Len(pat), pat, rep)
         ELSE <<s[i]>> \o ReplaceFrom(s, i + 1, pat, rep)

ReplaceAll(s, pat, rep) == ReplaceFrom(s, 1, pat, rep)

\* the text contains the literal pattern
Contains(s, pat) == \E i \in 1..Len(s) : StartsWithAt(s, i, pat)

\* str.split(','): "" gives [""], "a," gives ["a", ""]
RECURSIVE SplitFrom(_, _, _)
SplitFrom(s, i, cur) ==
    IF i > Len(s) THEN <<cur>>
    ELSE IF s[i] = "," THEN <<cur>> \o SplitFrom(s, i + 1, <<>>)
         ELSE SplitFrom(s, i + 1, Append(cur, s[i]))

Split(s) == SplitFrom(s, 1, <<>>)

\* id[0].match(/\d/) of a non-empty string
FirstIsDigit(id) == id[1] \in Digits

\* variant: the id stored as it is written
PrefixDigitNever(id) == id

\* if (id[0].match(/\d/)) id = 's' + id
PrefixDigit(id) == IF FirstIsDigit(id) THEN <<"s">> \o id ELSE id

(***************************************************************************)
(* sanitize (lines 20-31).  config.securityLevel is read once, when the    *)
(* module is loaded; it is the variable securityLevel, fixed by Init.      *)
(***************************************************************************)
S_br == <<"<", "b", "r", ">">>
S_brOpen == <<"<", "b", "r">>
S_brClose == <<"/", ">">>
S_brMark == <<"#", "b", "r", "#">>
S_brTag == <<"<", "b", "r", "/", ">">>
S_lt == <<"&", "l", "t", ";">>
S_gt == <<"&", "g", "t", ";">>
S_equals == <<"&", "e", "q", "u", "a", "l", "s", ";">>

\* /<br\S*?\/>/ matched at i: the index of the "/" of the nearest "/>" that
\* only non-blank characters separate from "<br"; 0 when there is no match
BrCloseAt(s, i) ==
    LET ends == {j \in (i + 3)..(Len(s) - 1) :
                    /\ StartsWithAt(s, j, S_brClose)
                    /\ \A k \in (i + 3)..(j - 1) : s[k] \notin WhiteSpace}
    IN  IF StartsWithAt(s, i, S_brOpen) /\ ends # {}
        THEN CHOOSE j \in ends : \A k \in ends : j <= k
        ELSE 0

\* txt.replace(/<br\S*?\/>/g, '#br#')
RECURSIVE ReplaceBrFrom(_, _)
ReplaceBrFrom(s, i) ==
    IF i > Len(s) THEN <<>>
    ELSE IF BrCloseAt(s, i) # 0
         THEN S_brMark \o ReplaceBrFrom(s, BrCloseAt(s, i) + 2)
         ELSE <<s[i]>> \o ReplaceBrFrom(s, i + 1)

sanitize(text, level) ==
    IF level # "loose"
    THEN LET t1 == ReplaceAll(text, S_br, S_brMark)
             t2 == ReplaceBrFrom(t1, 1)
             t3 == ReplaceAll(ReplaceAll(t2, <<"<">>, S_lt), <<">">>, S_gt)
             t4 == ReplaceAll(t3, <<"=">>, S_equals)
         IN  ReplaceAll(t4, S_brMark, S_brTag)
    ELSE text

\* strip quotes if the string starts and ends with a quote (lines 60-62, 110-112)
StripQuotes(txt) ==
    IF txt # <<>> /\ txt[1] = "\"" /\ txt[Len(txt)] = "\""
    THEN Substring(txt, 1, Len(txt) - 1)
    ELSE txt

(***************************************************************************)
(* State (lines 8-18, 431-432)                                             *)
(***************************************************************************)
VARIABLES
    vertices,                \* id -> vertex record
    edges,                   \* array of edge records
    edgesDefaultStyle,       \* edges.defaultStyle
    edgesDefaultInterpolate, \* edges.defaultInterpolate
    classes,                 \* id -> class record
    subGraphs,               \* array of subgraph records
    subGraphLookup,          \* id -> the record registered last under the id,
                             \*   held as its JS index in subGraphs
    tooltips,                \* raw id -> tooltip text
    subCount,
    firstGraphFlag,
    direction,
    funs,                    \* functions to be run after graph rendering
    secCount,
    posCrossRef,
    securityLevel,           \* config.securityLevel
    lastCall,                \* the last call: operation, arguments, result
                             \*   (for clear: the number of records it dropped)
    linkLog,                 \* history: the edges built by addLink since clear()
    fgCalls                  \* history: firstGraph() calls since clear(), capped

vars == <<vertices, edges, edgesDefaultStyle, edgesDefaultInterpolate, classes,
          subGraphs, subGraphLookup, tooltips, subCount, firstGraphFlag,
          direction, funs, secCount, posCrossRef, securityLevel, lastCall,
          linkLog, fgCalls>>

\* an absent or null array argument (an array never holds undefined itself)
UndefinedArr == <<Undefined>>
NullArr == <<<<"null">>>>

\* a JS object used as a map, and its assignment obj[k] = v
EmptyMap == [k \in {} |-> Undefined]

Put(m, k, v) == [x \in (DOMAIN m) \cup {k} |-> IF x = k THEN v ELSE m[x]]

\* what a call reports: its result and the exception it ended with, if any
Call(op, args, ret, thrown) ==
    [op |-> op, args |-> args, ret |-> ret, thrown |-> thrown, halted |-> TRUE]

(***************************************************************************)
(* addVertex (lines 41-87)                                                 *)
(***************************************************************************)
NewVertex(id) ==
    [id |-> id, styles |-> <<>>, classes |-> <<>>,
     text |-> Undefined, type |-> Undefined, link |-> Undefined]

\* the registry after addVertex(_id, text, type, style, classes)
addVertex(vs, _id, text, type, style, cls, level) ==
    IF _id = Undefined THEN vs
    ELSE IF Len(Trim(_id)) = 0 THEN vs
    ELSE
      LET id == PrefixDigit(_id)
          v0 == IF id \in DOMAIN vs THEN vs[id] ELSE NewVertex(id)
          v1 == IF text # Undefined
                THEN [v0 EXCEPT !.text = StripQuotes(sanitize(Trim(text), level))]
                ELSE IF v0.text = Undefined \/ v0.text = <<>>
                     THEN [v0 EXCEPT !.text = _id]
                     ELSE v0
          v2 == IF type # Undefined THEN [v1 EXCEPT !.type = type] ELSE v1
          v3 == IF style # UndefinedArr /\ style # NullArr
                THEN [v2 EXCEPT !.styles = @ \o style] ELSE v2
          v4 == IF cls # UndefinedArr /\ cls # NullArr
                THEN [v3 EXCEPT !.classes = @ \o cls] ELSE v3
      IN  Put(vs, id, v4)

(***************************************************************************)
(* addLink (lines 96-120)                                                  *)
(***************************************************************************)
\* the type descriptor the parser passes; defined = FALSE is the value undefined
NoType ==
    [defined |-> FALSE, type |-> Undefined, stroke |-> Undefined, text |-> Undefined]

\* start[0].match, end[0].match and type.text raise a TypeError on an empty
\* string or an absent descriptor
addLinkThrows(_start, _end, type) ==
    \/ _start = Undefined \/ _start = <<>>
    \/ _end = Undefined \/ _end = <<>>
    \/ ~type.defined

\* variant: the text of the edge taken from the linktext argument when given
buildEdgeLinkText(_start, _end, type, linktext, level) ==
    LET lt == IF linktext # Undefined THEN linktext ELSE type.text
    IN  [start |-> PrefixDigit(_start),
         end |-> PrefixDigit(_end),
         type |-> type.type,
         stroke |-> type.stroke,
         text |-> IF lt # Undefined
                  THEN StripQuotes(sanitize(Trim(lt), level))
                  ELSE <<>>,
         style |-> UndefinedArr,
         interpolate |-> Undefined]

\* the edge record addLink builds; the linktext argument is overwritten
buildEdge(_start, _end, type, linktext, level) ==
    LET lt == type.text
    IN  [start |-> PrefixDigit(_start),
         end |-> PrefixDigit(_end),
         type |-> type.type,
         stroke |-> type.stroke,
         text |-> IF lt # Undefined
                  THEN StripQuotes(sanitize(Trim(lt), level))
                  ELSE <<>>,
         style |-> UndefinedArr,
         interpolate |-> Undefined]

\* variant: the edge put in front of the list (unshift)
pushEdgeFront(es, edge) == <<edge>> \o es

\* edges.push(edge)
pushEdge(es, edge) == Append(es, edge)

(***************************************************************************)
(* updateLinkInterpolate, updateLink (lines 127-153)                       *)
(***************************************************************************)
S_default == <<"d", "e", "f", "a", "u", "l", "t">>
S_fill == <<"f", "i", "l", "l">>
S_fillNone == <<"f", "i", "l", "l", ":", "n", "o", "n", "e">>

\* edges[pos] is an edge record (else edges[pos].x = ... raises a TypeError)
HasEdge(es, pos) == IsIndexKey(pos) /\ StrToNum(pos) < Len(es)

\* positions.forEach of updateLinkInterpolate from entry i on;
\* st = [edges, def, thrown]
RECURSIVE interpolateEach(_, _, _, _)
interpolateEach(st, positions, i, interp) ==
    IF i > Len(positions) \/ st.thrown THEN st
    ELSE LET pos == positions[i]
         IN  IF pos = S_default
             THEN interpolateEach([st EXCEPT !.def = interp], positions, i + 1, interp)
             ELSE IF HasEdge(st.edges, pos)
                  THEN interpolateEach(
                         [st EXCEPT !.edges[StrToNum(pos) + 1].interpolate = interp],
                         positions, i + 1, interp)
                  ELSE [st EXCEPT !.thrown = TRUE]

\* utils.isSubstringInArray(str, arr): the JS index of the first entry of arr
\* that contains str, -1 when there is none
isSubstringInArray(str, arr) ==
    LET hits == {i \in 1..Len(arr) : Contains(arr[i], str)}
    IN  IF hits = {} THEN -1 ELSE (CHOOSE i \in hits : \A j \in hits : i <= j) - 1

\* The entries of positions that forEach runs: all of them, or those up to and
\* including the first one whose edges[pos] does not exist (it throws).
RECURSIVE linkRun(_, _, _)
linkRun(es, positions, i) ==
    IF i > Len(positions) THEN 0
    ELSE IF positions[i] # S_default /\ ~HasEdge(es, positions[i]) THEN 1
         ELSE 1 + linkRun(es, positions, i + 1)

\* The style array is one object: every field the call assigns refers to it, so
\* each of them shows the 'fill:none' that a later entry of the same call pushes.
\* This is the content of the array when the call ends.
styleAfter(es, positions, style) ==
    LET n == linkRun(es, positions, 1)
    IN  IF /\ \E i \in 1..n : positions[i] # S_default
           /\ isSubstringInArray(S_fill, style) = -1
        THEN Append(style, S_fillNone)
        ELSE style

\* positions.forEach of updateLink; st = [edges, def, thrown]
updateLinkEach(st, positions, style) ==
    LET n == linkRun(st.edges, positions, 1)
        final == styleAfter(st.edges, positions, style)
        stored == {StrToNum(positions[i]) + 1 :
                     i \in {j \in 1..n : HasEdge(st.edges, positions[j])}}
    IN  [edges |-> [k \in 1..Len(st.edges) |->
                      IF k \in stored
                      THEN [st.edges[k] EXCEPT !.style = final]
                      ELSE st.edges[k]],
         def |-> IF \E i \in 1..n : positions[i] = S_default THEN final ELSE st.def,
         thrown |-> n >= 1 /\ positions[n] # S_default
                           /\ ~HasEdge(st.edges, positions[n])]

(***************************************************************************)
(* addClass (lines 155-167)                                                *)
(***************************************************************************)
addClass(cs, id, style) ==
    LET c0 == IF id \in DOMAIN cs THEN cs[id] ELSE [id |-> id, styles |-> <<>>]
        c1 == IF style # UndefinedArr /\ style # NullArr
              THEN [c0 EXCEPT !.styles = @ \o style] ELSE c0
    IN  Put(cs, id, c1)

(***************************************************************************)
(* setDirection (lines 173-187)                                            *)
(***************************************************************************)
S_RL == <<"R", "L">>
S_BT == <<"B", "T">>
S_LR == <<"L", "R">>
S_TB == <<"T", "B">>

\* direction.match(/.*c/): the pattern is not anchored, so it matches whenever
\* the character occurs in the string
MatchesChar(s, c) == \E i \in 1..Len(s) : s[i] = c

\* variant: each test reads the token, so that the last match decides
setDirectionOnToken(dir) ==
    IF MatchesChar(dir, "v") THEN S_TB
    ELSE IF MatchesChar(dir, ">") THEN S_LR
    ELSE IF MatchesChar(dir, "^") THEN S_BT
    ELSE IF MatchesChar(dir, "<") THEN S_RL
    ELSE dir

\* each test reads the variable direction, which an earlier test may have
\* overwritten
setDirection(dir) ==
    LET d1 == IF MatchesChar(dir, "<") THEN S_RL ELSE dir
        d2 == IF MatchesChar(d1, "^") THEN S_BT ELSE d1
        d3 == IF MatchesChar(d2, ">") THEN S_LR ELSE d2
        d4 == IF MatchesChar(d3, "v") THEN S_TB ELSE d3
    IN  d4

(***************************************************************************)
(* setClass, setTooltip, setClickFun, setLink, setClickEvent                *)
(* (lines 194-278).  reg = [vertices, subGraphs, thrown]; subGraphLookup    *)
(* is only read.                                                           *)
(***************************************************************************)
S_clickable == <<"c", "l", "i", "c", "k", "a", "b", "l", "e">>
S_aboutBlank == <<"a", "b", "o", "u", "t", ":", "b", "l", "a", "n", "k">>
S_javascript == <<"j", "a", "v", "a", "s", "c", "r", "i", "p", "t", ":">>

\* one pass of the forEach body of setClass (lines 196-204)
setClassOne(reg, lookup, _id, className) ==
    IF _id = <<>> THEN [reg EXCEPT !.thrown = TRUE]
    ELSE
      LET id == PrefixDigit(_id)
          vs == IF id \in DOMAIN reg.vertices
                THEN [reg.vertices EXCEPT ![id].classes = Append(@, className)]
                ELSE reg.vertices
          sg == IF id \in DOMAIN lookup
                THEN [reg.subGraphs EXCEPT ![lookup[id] + 1].classes = Append(@, className)]
                ELSE reg.subGraphs
      IN  [reg EXCEPT !.vertices = vs, !.subGraphs = sg]

RECURSIVE setClassEach(_, _, _, _, _)
setClassEach(reg, lookup, idList, i, className) ==
    IF i > Len(idList) \/ reg.thrown THEN reg
    ELSE setClassEach(setClassOne(reg, lookup, idList[i], className),
                      lookup, idList, i + 1, className)

setClass(reg, lookup, ids, className) ==
    setClassEach(reg, lookup, Split(ids), 1, className)

\* setTooltip: the key is the id as written, not the normalized id
RECURSIVE setTooltipEach(_, _, _, _, _)
setTooltipEach(tt, idList, i, tooltip, level) ==
    IF i > Len(idList) THEN tt
    ELSE setTooltipEach(
           IF tooltip # Undefined
           THEN Put(tt, idList[i], sanitize(tooltip, level)) ELSE tt,
           idList, i + 1, tooltip, level)

setTooltip(tt, ids, tooltip, level) == setTooltipEach(tt, Split(ids), 1, tooltip, level)

\* setClickFun: st = [funs, thrown]; a pending binding is kept as the pair
\* the closure captures
setClickFun(st, vs, _id, functionName, level) ==
    IF _id = <<>> THEN [st EXCEPT !.thrown = TRUE]
    ELSE IF level # "loose" THEN st
    ELSE IF functionName = Undefined THEN st
    ELSE IF PrefixDigit(_id) \in DOMAIN vs
         THEN [st EXCEPT !.funs =
                 Append(@, [id |-> PrefixDigit(_id), functionName |-> functionName])]
         ELSE st

RECURSIVE setClickFunEach(_, _, _, _, _, _)
setClickFunEach(st, vs, idList, i, functionName, level) ==
    IF i > Len(idList) \/ st.thrown THEN st
    ELSE setClickFunEach(setClickFun(st, vs, idList[i], functionName, level),
                         vs, idList, i + 1, functionName, level)

\* sanitizeUrl of @braintree/sanitize-url: a javascript: URL becomes about:blank
sanitizeUrl(url) ==
    IF StartsWithAt(TrimLeft(url), 1, S_javascript) THEN S_aboutBlank ELSE url

\* one pass of the first forEach of setLink (lines 249-257)
setLinkOne(reg, _id, linkStr, level) ==
    IF _id = <<>> THEN [reg EXCEPT !.thrown = TRUE]
    ELSE IF PrefixDigit(_id) \in DOMAIN reg.vertices
         THEN [reg EXCEPT !.vertices[PrefixDigit(_id)].link =
                 IF level # "loose" THEN sanitizeUrl(linkStr) ELSE linkStr]
         ELSE reg

RECURSIVE setLinkEach(_, _, _, _, _)
setLinkEach(reg, idList, i, linkStr, level) ==
    IF i > Len(idList) \/ reg.thrown THEN reg
    ELSE setLinkEach(setLinkOne(reg, idList[i], linkStr, level),
                     idList, i + 1, linkStr, level)

\* setLink: st = [vertices, subGraphs, tooltips, thrown].  An exception of the
\* first loop skips setTooltip and setClass.
setLink(st, lookup, ids, linkStr, tooltip, level) ==
    LET r1 == setLinkEach([vertices |-> st.vertices, subGraphs |-> st.subGraphs,
                           thrown |-> FALSE], Split(ids), 1, linkStr, level)
        r2 == setClass(r1, lookup, ids, S_clickable)
    IN  IF r1.thrown
        THEN [vertices |-> r1.vertices, subGraphs |-> r1.subGraphs,
              tooltips |-> st.tooltips, thrown |-> TRUE]
        ELSE [vertices |-> r2.vertices, subGraphs |-> r2.subGraphs,
              tooltips |-> setTooltip(st.tooltips, ids, tooltip, level),
              thrown |-> r2.thrown]

\* setClickEvent: st = [vertices, subGraphs, tooltips, funs, thrown]
setClickEvent(st, lookup, ids, functionName, tooltip, level) ==
    LET r1 == setClickFunEach([funs |-> st.funs, thrown |-> FALSE], st.vertices,
                              Split(ids), 1, functionName, level)
        r2 == setClass([vertices |-> st.vertices, subGraphs |-> st.subGraphs,
                        thrown |-> FALSE], lookup, ids, S_clickable)
    IN  IF r1.thrown
        THEN [st EXCEPT !.funs = r1.funs, !.thrown = TRUE]
        ELSE [vertices |-> r2.vertices, subGraphs |-> r2.subGraphs,
              tooltips |-> setTooltip(st.tooltips, ids, tooltip, level),
              funs |-> r1.funs, thrown |-> r2.thrown]

(***************************************************************************)
(* addSubGraph (lines 382-421)                                             *)
(***************************************************************************)
S_subGraph == <<"s", "u", "b", "G", "r", "a", "p", "h">>

\* _title.match(/\s/)
HasWhiteSpace(s) == \E i \in 1..Len(s) : s[i] \in WhiteSpace

\* nodeList.concat.apply(nodeList, list): the member lists, one after another
RECURSIVE Flatten(_)
Flatten(list) == IF list = <<>> THEN <<>> ELSE Head(list) \o Flatten(Tail(list))

\* uniq (lines 388-403): a.filter drops a blank item and an item seen before
RECURSIVE uniqFrom(_, _, _)
uniqFrom(a, i, seen) ==
    IF i > Len(a) THEN <<>>
    ELSE IF Trim(a[i]) = <<>> THEN uniqFrom(a, i + 1, seen)
    ELSE IF a[i] \in seen THEN uniqFrom(a, i + 1, seen)
    ELSE <<a[i]>> \o uniqFrom(a, i + 1, seen \cup {a[i]})

\* variant: of an item that occurs several times the last occurrence is kept
uniqKeepLast(a) ==
    LET r == [i \in 1..Len(a) |-> a[Len(a) + 1 - i]]
        u == uniqFrom(r, 1, {})
    IN  [i \in 1..Len(u) |-> u[Len(u) + 1 - i]]

uniq(a) == uniqFrom(a, 1, {})

\* lines 405-410: the members are made unique first and normalized afterwards
nodeListOf(list) ==
    LET u == uniq(Flatten(list))
    IN  [i \in 1..Len(u) |-> PrefixDigit(u[i])]

\* line 385: _title.match of an absent title raises a TypeError
addSubGraphThrows(_id, _title) == _id = _title /\ _title = Undefined

\* lines 383-387, 412-413: the id the record is registered under
subGraphId(_id, _title, count) ==
    LET id0 == IF _id = _title /\ HasWhiteSpace(_title) THEN Undefined ELSE _id
        id1 == IF id0 = Undefined \/ id0 = <<>>
               THEN S_subGraph \o NumToStr(count) ELSE id0
    IN  PrefixDigit(id1)

\* lines 414-417
subGraphTitle(_title, level) ==
    Trim(sanitize(IF _title = Undefined \/ _title = <<>> THEN <<>> ELSE _title, level))

\* lines 417-419: sg = [subGraphs, lookup]; the lookup refers to the new record
registerSubGraph(sg, rec) ==
    [subGraphs |-> Append(sg.subGraphs, rec),
     lookup |-> Put(sg.lookup, rec.id, Len(sg.subGraphs))]

(***************************************************************************)
(* getPosForId (lines 423-430)                                             *)
(***************************************************************************)
getPosForId(sgs, id) ==
    LET hits == {i \in 1..Len(sgs) : sgs[i].id = id}
    IN  IF hits = {} THEN -1 ELSE (CHOOSE i \in hits : \A j \in hits : i <= j) - 1

(***************************************************************************)
(* indexNodes2, indexNodes (lines 431-481).  The recursion is run as a     *)
(* machine: w.stack holds the frames of the calls in progress (pos, count, *)
(* posCount), w.phase is "loop" (the top frame is at its while test),      *)
(* "ret" (a call has just returned w.res to the top frame), "returned"     *)
(* (the outermost call has returned) or "thrown" (a TypeError left every   *)
(* frame: nothing catches it).                                             *)
(***************************************************************************)
MaxVisits == 2000

S_none == <<"n", "o", "n", "e">>

\* variant: the walk without its cap
overCapNever(n) == FALSE

\* secCount > 2000
overCap(n) == n > MaxVisits

\* posCrossRef[k] = v; k never exceeds the length, the counter rising by one
arrayPut(a, k, v) == IF k = Len(a) THEN Append(a, v) ELSE [a EXCEPT ![k + 1] = v]

\* 'return;' hands the caller undefined; count is then not read
NoResult == [defined |-> FALSE, result |-> FALSE, count |-> 0]

Result(r, c) == [defined |-> TRUE, result |-> r, count |-> c]

\* lines 434-446: the entry of indexNodes2(id, pos), up to the while loop
enter(w, sgs, id, pos) ==
    LET sc == w.secCount + 1
    IN  IF overCap(sc)
        THEN [w EXCEPT !.secCount = sc, !.phase = "ret", !.res = NoResult]
        ELSE IF sgs[pos + 1].id = id
             THEN [w EXCEPT !.secCount = sc,
                            !.posCrossRef = arrayPut(@, sc, pos),
                            !.phase = "ret", !.res = Result(TRUE, 0)]
             ELSE [w EXCEPT !.secCount = sc,
                            !.posCrossRef = arrayPut(@, sc, pos),
                            !.phase = "loop",
                            !.stack = Append(@, [pos |-> pos, count |-> 0, posCount |-> 1])]

\* lines 450-470: one pass of the while test of the top frame
loopStep(w, sgs, id) ==
    LET top == Len(w.stack)
        f == w.stack[top]
        nodes == sgs[f.pos + 1].nodes
        childPos == getPosForId(sgs, nodes[f.count + 1])
    IN  IF f.count < Len(nodes)
        THEN IF childPos >= 0
             THEN enter(w, sgs, id, childPos)
             ELSE [w EXCEPT !.stack[top].count = f.count + 1]
        ELSE [w EXCEPT !.stack = SubSeq(@, 1, top - 1),
                       !.phase = "ret", !.res = Result(FALSE, f.posCount)]

\* lines 454-464: the caller reads res.result of what the call returned
retStep(w) ==
    LET top == Len(w.stack)
        f == w.stack[top]
    IN  IF top = 0 THEN [w EXCEPT !.phase = "returned"]
        ELSE IF ~w.res.defined
             THEN [w EXCEPT !.stack = <<>>, !.phase = "thrown"]
        ELSE IF w.res.result
             THEN [w EXCEPT !.stack = SubSeq(@, 1, top - 1),
                            !.res = Result(TRUE, f.posCount + w.res.count)]
             ELSE [w EXCEPT !.stack[top].posCount = f.posCount + w.res.count,
                            !.stack[top].count = f.count + 1,
                            !.phase = "loop"]

walkDone(w) == w.phase \in {"returned", "thrown"}

walkStep(w, sgs, id) ==
    IF walkDone(w) THEN w
    ELSE IF w.phase = "loop" THEN loopStep(w, sgs, id) ELSE retStep(w)

\* n steps of the machine, or fewer when it stops before
RECURSIVE walkRun(_, _, _, _)
walkRun(w, sgs, id, n) ==
    IF walkDone(w) \/ n = 0 THEN w
    ELSE IF n = 1 THEN walkStep(w, sgs, id)
    ELSE walkRun(walkRun(w, sgs, id, n \div 2), sgs, id, n - (n \div 2))

\* Steps that a walk of at most MaxVisits + 2 calls can take: each call is
\* entered once, returns once and passes its while test once per member and
\* once more to leave.
RECURSIVE maxMembers(_)
maxMembers(sgs) ==
    IF sgs = <<>> THEN 0
    ELSE LET m == maxMembers(Tail(sgs))
         IN  IF Len(Head(sgs).nodes) > m THEN Len(Head(sgs).nodes) ELSE m

walkBudget(sgs) == (MaxVisits + 2) * (maxMembers(sgs) + 3)

\* indexNodes (lines 476-481): the machine when the walk has stopped, or when
\* the budget is used up
indexNodes(sgs, table) ==
    LET w0 == [stack |-> <<>>, secCount |-> -1, posCrossRef |-> table,
               phase |-> "returned", res |-> NoResult]
    IN  IF Len(sgs) > 0
        THEN walkRun(enter(w0, sgs, S_none, Len(sgs) - 1), sgs, S_none,
                     walkBudget(sgs))
        ELSE w0

\* getDepthFirstPos (lines 473-475): posCrossRef[pos] is an entry, not undefined
HasDepthFirstPos(table, pos) == pos >= 0 /\ pos < Len(table)

\* getDepthFirstPos(pos) where it is an entry
getDepthFirstPos(table, pos) == table[pos + 1]

(***************************************************************************)
(* clear (lines 359-370), firstGraph (lines 487-493)                       *)
(***************************************************************************)
S_setupToolTips == <<"s", "e", "t", "u", "p", "T", "o", "o", "l", "T", "i", "p", "s">>

\* the entry of funs for setupToolTips (line 354)
SetupToolTips == [id |-> Undefined, functionName |-> S_setupToolTips]

\* variant: a clear() that keeps the sequence counter
clearedKeepsCount ==
    [vertices |-> EmptyMap, classes |-> EmptyMap, edges |-> <<>>,
     edgesDefaultStyle |-> UndefinedArr, edgesDefaultInterpolate |-> Undefined,
     funs |-> <<SetupToolTips>>, subGraphs |-> <<>>, subGraphLookup |-> EmptyMap,
     subCount |-> subCount, tooltips |-> EmptyMap, firstGraphFlag |-> TRUE]

\* what clear() assigns; direction, secCount and posCrossRef are not assigned
cleared ==
    [vertices |-> EmptyMap, classes |-> EmptyMap, edges |-> <<>>,
     edgesDefaultStyle |-> UndefinedArr, edgesDefaultInterpolate |-> Undefined,
     funs |-> <<SetupToolTips>>, subGraphs |-> <<>>, subGraphLookup |-> EmptyMap,
     subCount |-> 0, tooltips |-> EmptyMap, firstGraphFlag |-> TRUE]

\* variant: a latch that is read and never released
firstGraphSticky(flag) == [ret |-> flag, flag |-> flag]

\* firstGraph(): [ret, flag]
firstGraph(flag) ==
    IF flag THEN [ret |-> TRUE, flag |-> FALSE] ELSE [ret |-> FALSE, flag |-> flag]

(***************************************************************************)
(* Initial state: the module just loaded                                   *)
(***************************************************************************)
SecurityLevels == {"strict", "loose"}

Init ==
    /\ vertices = EmptyMap
    /\ edges = <<>>
    /\ edgesDefaultStyle = UndefinedArr
    /\ edgesDefaultInterpolate = Undefined
    /\ classes = EmptyMap
    /\ subGraphs = <<>>
    /\ subGraphLookup = EmptyMap
    /\ tooltips = EmptyMap
    /\ subCount = 0
    /\ firstGraphFlag = TRUE
    /\ direction = Undefined
    /\ funs = <<SetupToolTips>>
    /\ secCount = -1
    /\ posCrossRef = <<>>
    /\ securityLevel \in SecurityLevels
    /\ lastCall = Call("load", <<>>, Undefined, "none")
    /\ linkLog = <<>>
    /\ fgCalls = 0

(***************************************************************************)
(* Operations.  Each action is one call of the exported function.          *)
(***************************************************************************)
\* Bounds of the model
MaxEdges == 2        \* addLink is not called on a longer edge list
MaxSubGraphs == 2    \* addSubGraph is not called on a longer subgraph list
MaxList == 1         \* a classes list of a record is not grown beyond this
MaxElements == 1     \* records (vertices, edges, classes, subgraphs) of a small diagram
MaxLatchCalls == 2   \* fgCalls stops counting here

vertexVars == <<vertices>>
edgeVars == <<edges, edgesDefaultStyle, edgesDefaultInterpolate, linkLog>>
subGraphVars == <<subGraphs, subGraphLookup, subCount>>
indexVars == <<secCount, posCrossRef>>
sessionVars == <<firstGraphFlag, fgCalls, direction>>

Thrown(b) == IF b THEN "TypeError" ELSE "none"

\* the number of records of the diagram
diagramSize ==
    Cardinality(DOMAIN vertices) + Len(edges) + Cardinality(DOMAIN classes)
    + Len(subGraphs)

\* the records, the tooltips and the edge defaults that are stored
storeSize ==
    diagramSize + Cardinality(DOMAIN tooltips)
    + (IF edgesDefaultStyle # UndefinedArr THEN 1 ELSE 0)
    + (IF edgesDefaultInterpolate # Undefined THEN 1 ELSE 0)

AddVertex(_id, text, type, style, cls) ==
    /\ vertices' = addVertex(vertices, _id, text, type, style, cls, securityLevel)
    /\ lastCall' = Call("addVertex", <<_id, text>>, Undefined, "none")
    /\ UNCHANGED <<edgeVars, classes, subGraphVars, tooltips, funs, indexVars,
                   sessionVars, securityLevel>>

AddLink(_start, _end, type, linktext) ==
    /\ IF addLinkThrows(_start, _end, type)
       THEN /\ UNCHANGED <<edges, linkLog>>
            /\ lastCall' = Call("addLink", <<_start, _end, linktext, type>>, Undefined, "TypeError")
       ELSE LET edge == buildEdge(_start, _end, type, linktext, securityLevel)
            IN  /\ edges' = pushEdge(edges, edge)
                /\ linkLog' = Append(linkLog, edge)
                /\ lastCall' = Call("addLink", <<_start, _end, linktext, type>>, Undefined, "none")
    /\ UNCHANGED <<edgesDefaultStyle, edgesDefaultInterpolate, vertexVars, classes,
                   subGraphVars, tooltips, funs, indexVars, sessionVars, securityLevel>>

UpdateLinkInterpolate(positions, interp) ==
    LET r == interpolateEach([edges |-> edges, def |-> edgesDefaultInterpolate,
                              thrown |-> FALSE], positions, 1, interp)
    IN  /\ edges' = r.edges
        /\ edgesDefaultInterpolate' = r.def
        /\ lastCall' = Call("updateLinkInterpolate", <<positions>>, Undefined, Thrown(r.thrown))
        /\ UNCHANGED <<edgesDefaultStyle, linkLog, vertexVars, classes, subGraphVars,
                       tooltips, funs, indexVars, sessionVars, securityLevel>>

UpdateLink(positions, style) ==
    LET r == updateLinkEach([edges |-> edges, def |-> edgesDefaultStyle,
                             thrown |-> FALSE], positions, style)
    IN  /\ edges' = r.edges
        /\ edgesDefaultStyle' = r.def
        /\ lastCall' = Call("updateLink", <<positions, style>>, Undefined, Thrown(r.thrown))
        /\ UNCHANGED <<edgesDefaultInterpolate, linkLog, vertexVars, classes,
                       subGraphVars, tooltips, funs, indexVars, sessionVars,
                       securityLevel>>

AddClass(id, style) ==
    /\ classes' = addClass(classes, id, style)
    /\ lastCall' = Call("addClass", <<id>>, Undefined, "none")
    /\ UNCHANGED <<vertexVars, edgeVars, subGraphVars, tooltips, funs, indexVars,
                   sessionVars, securityLevel>>

SetDirection(dir) ==
    /\ direction' = setDirection(dir)
    /\ lastCall' = Call("setDirection", <<dir>>, Undefined, "none")
    /\ UNCHANGED <<vertexVars, edgeVars, classes, subGraphVars, tooltips, funs,
                   indexVars, firstGraphFlag, fgCalls, securityLevel>>

SetClass(ids, className) ==
    LET r == setClass([vertices |-> vertices, subGraphs |-> subGraphs,
                       thrown |-> FALSE], subGraphLookup, ids, className)
    IN  /\ vertices' = r.vertices
        /\ subGraphs' = r.subGraphs
        /\ lastCall' = Call("setClass", <<ids, className>>, Undefined, Thrown(r.thrown))
        /\ UNCHANGED <<edgeVars, classes, subGraphLookup, subCount, tooltips, funs,
                       indexVars, sessionVars, securityLevel>>

SetLink(ids, linkStr, tooltip) ==
    LET r == setLink([vertices |-> vertices, subGraphs |-> subGraphs,
                      tooltips |-> tooltips, thrown |-> FALSE],
                     subGraphLookup, ids, linkStr, tooltip, securityLevel)
    IN  /\ vertices' = r.vertices
        /\ subGraphs' = r.subGraphs
        /\ tooltips' = r.tooltips
        /\ lastCall' = Call("setLink", <<ids, linkStr, tooltip>>, Undefined, Thrown(r.thrown))
        /\ UNCHANGED <<edgeVars, classes, subGraphLookup, subCount, funs, indexVars,
                       sessionVars, securityLevel>>

SetClickEvent(ids, functionName, tooltip) ==
    LET r == setClickEvent([vertices |-> vertices, subGraphs |-> subGraphs,
                            tooltips |-> tooltips, funs |-> funs, thrown |-> FALSE],
                           subGraphLookup, ids, functionName, tooltip, securityLevel)
    IN  /\ vertices' = r.vertices
        /\ subGraphs' = r.subGraphs
        /\ tooltips' = r.tooltips
        /\ funs' = r.funs
        /\ lastCall' = Call("setClickEvent", <<ids, functionName, tooltip>>, Undefined,
                            Thrown(r.thrown))
        /\ UNCHANGED <<edgeVars, classes, subGraphLookup, subCount, indexVars,
                       sessionVars, securityLevel>>

AddSubGraph(_id, list, _title) ==
    /\ IF addSubGraphThrows(_id, _title)
       THEN /\ UNCHANGED subGraphVars
            /\ lastCall' = Call("addSubGraph", <<_id, list, _title>>, Undefined, "TypeError")
       ELSE LET id == subGraphId(_id, _title, subCount)
                rec == [id |-> id, nodes |-> nodeListOf(list),
                        title |-> subGraphTitle(_title, securityLevel),
                        classes |-> <<>>]
                r == registerSubGraph([subGraphs |-> subGraphs,
                                       lookup |-> subGraphLookup], rec)
            IN  /\ subGraphs' = r.subGraphs
                /\ subGraphLookup' = r.lookup
                /\ subCount' = subCount + 1
                /\ lastCall' = Call("addSubGraph", <<_id, list, _title>>, id, "none")
    /\ UNCHANGED <<vertexVars, edgeVars, classes, tooltips, funs, indexVars,
                   sessionVars, securityLevel>>

IndexNodes ==
    LET w == indexNodes(subGraphs, posCrossRef)
    IN  /\ secCount' = w.secCount
        /\ posCrossRef' = w.posCrossRef
        /\ lastCall' = [Call("indexNodes", <<>>, Undefined, Thrown(w.phase = "thrown"))
                          EXCEPT !.halted = walkDone(w)]
        /\ UNCHANGED <<vertexVars, edgeVars, classes, subGraphVars, tooltips, funs,
                       sessionVars, securityLevel>>

Clear ==
    /\ vertices' = cleared.vertices
    /\ classes' = cleared.classes
    /\ edges' = cleared.edges
    /\ edgesDefaultStyle' = cleared.edgesDefaultStyle
    /\ edgesDefaultInterpolate' = cleared.edgesDefaultInterpolate
    /\ funs' = cleared.funs
    /\ subGraphs' = cleared.subGraphs
    /\ subGraphLookup' = cleared.subGraphLookup
    /\ subCount' = cleared.subCount
    /\ tooltips' = cleared.tooltips
    /\ firstGraphFlag' = cleared.firstGraphFlag
    /\ linkLog' = <<>>
    /\ fgCalls' = 0
    /\ lastCall' = Call("clear", <<storeSize>>, Undefined, "none")
    /\ UNCHANGED <<direction, indexVars, securityLevel>>

FirstGraph ==
    LET r == firstGraph(firstGraphFlag)
    IN  /\ firstGraphFlag' = r.flag
        /\ fgCalls' = IF fgCalls < MaxLatchCalls THEN fgCalls + 1 ELSE fgCalls
        /\ lastCall' = Call("firstGraph", <<>>, r.ret, "none")
        /\ UNCHANGED <<vertexVars, edgeVars, classes, subGraphVars, tooltips, funs,
                       indexVars, direction, securityLevel>>

(***************************************************************************)
(* Inputs                                                                  *)
(***************************************************************************)
S_a == <<"a">>
S_b == <<"b">>
S_t == <<"t">>
S_A == <<"A">>
S_B == <<"B">>
S_c == <<"c">>
S_0 == <<"0">>
S_1 == <<"1">>
S_stroke == <<"s", "t", "r", "o", "k", "e", ":", "r", "e", "d">>
S_basis == <<"b", "a", "s", "i", "s">>
S_url == <<"x", ".", "y">>
S_tip == <<"t", "i", "p">>
S_arrow == <<"a", "r", "r", "o", "w">>
S_normal == <<"n", "o", "r", "m", "a", "l">>
S_gtTok == <<">">>

\* the type descriptor of a plain arrow without text
Arrow == [defined |-> TRUE, type |-> S_arrow, stroke |-> S_normal, text |-> Undefined]

(***************************************************************************)
(* SpecIndex: the subgraph registry and the indexer.  Members name         *)
(* subgraphs registered before or after them, so membership may be cyclic. *)
(***************************************************************************)
\* <<id, member lists>> of the addSubGraph calls: A holds B and the vertex a,
\* B holds A (a cycle with the first) or only a vertex, A holds itself
IndexCalls ==
    {<<S_A, <<<<S_B>>, <<S_a>>>>>>,
     <<S_B, <<<<S_A>>>>>>,
     <<S_B, <<<<S_a>>>>>>,
     <<S_A, <<<<S_A>>>>>>}

AddSubGraphIndex ==
    /\ Len(subGraphs) < MaxSubGraphs
    /\ \E c \in IndexCalls : AddSubGraph(c[1], c[2], S_t)

NextIndex ==
    \/ AddSubGraphIndex
    \/ IndexNodes

SpecIndex == Init /\ [][NextIndex]_vars

(***************************************************************************)
(* Spec: one session after another, every operation of the parser and of   *)
(* the renderer, on a small diagram.                                       *)
(***************************************************************************)
\* the classes list that a call on id would grow is still below the bound
CanGrow(id) ==
    /\ id \in DOMAIN vertices => Len(vertices[id].classes) < MaxList
    /\ id \in DOMAIN subGraphLookup =>
         Len(subGraphs[subGraphLookup[id] + 1].classes) < MaxList

AddVertexSmall ==
    /\ S_a \in DOMAIN vertices \/ diagramSize < MaxElements
    /\ \E text \in {Undefined, S_t} :
         AddVertex(S_a, text, Undefined, UndefinedArr, UndefinedArr)

AddLinkSmall ==
    /\ Len(edges) < MaxEdges
    /\ diagramSize < MaxElements
    /\ \E start \in {S_a, S_1, <<>>} : AddLink(start, S_b, Arrow, Undefined)

UpdateLinkInterpolateSmall ==
    \E positions \in {<<S_default>>, <<S_1>>} : UpdateLinkInterpolate(positions, S_basis)

UpdateLinkSmall ==
    \E positions \in {<<S_0>>, <<S_default, S_1>>} : UpdateLink(positions, <<S_stroke>>)

AddClassSmall ==
    /\ S_c \in DOMAIN classes \/ diagramSize < MaxElements
    /\ S_c \in DOMAIN classes => Len(classes[S_c].styles) < MaxList
    /\ AddClass(S_c, <<S_stroke>>)

SetDirectionSmall == SetDirection(S_gtTok)

SetClassSmall == CanGrow(S_a) /\ SetClass(S_a, S_c)

SetLinkSmall == CanGrow(S_a) /\ SetLink(S_a, S_url, S_tip)

AddSubGraphSmall ==
    /\ Len(subGraphs) < MaxSubGraphs
    /\ diagramSize < MaxElements
    /\ \E id \in {S_A, Undefined} : AddSubGraph(id, <<<<S_a>>>>, S_t)

Next ==
    \/ AddVertexSmall
    \/ AddLinkSmall
    \/ UpdateLinkInterpolateSmall
    \/ UpdateLinkSmall
    \/ AddClassSmall
    \/ SetDirectionSmall
    \/ SetClassSmall
    \/ SetLinkSmall
    \/ AddSubGraphSmall
    \/ IndexNodes
    \/ Clear
    \/ FirstGraph

Spec == Init /\ [][Next]_vars

(***************************************************************************)
(* SpecEdges: the edge list, with the other operations around it.          *)
(***************************************************************************)
AddLinkEdges ==
    /\ Len(edges) < MaxEdges
    /\ \E start \in {S_a, S_1, <<>>} : AddLink(start, S_b, Arrow, Undefined)

NextEdges ==
    \/ AddLinkEdges
    \/ UpdateLinkInterpolateSmall
    \/ UpdateLinkSmall
    \/ AddVertexSmall
    \/ AddClassSmall
    \/ SetClassSmall
    \/ SetLinkSmall
    \/ AddSubGraphSmall
    \/ IndexNodes
    \/ Clear

SpecEdges == Init /\ [][NextEdges]_vars

(***************************************************************************)
(* SpecSubGraphs: the subgraph registry, with explicit, absent, blank and  *)
(* digit-leading ids and member lists that hold blanks and repetitions.    *)
(***************************************************************************)
S_1a == <<"1", "a">>
S_s1a == <<"s", "1", "a">>
S_blank == <<" ">>
S_tt == <<"t", " ", "t">>
S_subGraph1 == <<"s", "u", "b", "G", "r", "a", "p", "h", "1">>

\* <<id, member lists, title>> of the addSubGraph calls
SubGraphCalls ==
    {<<S_A, <<<<S_a, S_b>>, <<S_a>>>>, S_t>>,
     <<S_A, <<<<S_1a, S_s1a>>>>, S_t>>,
     <<Undefined, <<<<S_blank, S_a, <<>>>>>>, S_t>>,
     <<S_subGraph1, <<<<S_a>>>>, S_t>>,
     <<S_tt, <<<<S_b>>>>, S_tt>>,
     <<Undefined, <<<<S_a>>>>, Undefined>>,
     <<S_1, <<<<S_a, S_b, S_a, S_c>>>>, Undefined>>,
     <<<<>>, <<<<>>>>, S_t>>}

AddSubGraphAny ==
    /\ Len(subGraphs) < MaxSubGraphs
    /\ \E c \in SubGraphCalls : AddSubGraph(c[1], c[2], c[3])

NextSubGraphs ==
    \/ AddSubGraphAny
    \/ Clear

SpecSubGraphs == Init /\ [][NextSubGraphs]_vars

(***************************************************************************)
(* SpecDirection: direction tokens of up to MaxToken characters.           *)
(***************************************************************************)
MaxToken == 3

DirChars == {"<", "^", ">", "v", "-"}

DirTokens == UNION {[1..n -> DirChars] : n \in 1..MaxToken}

SetDirectionAny == \E dir \in DirTokens : SetDirection(dir)

NextDirection ==
    \/ SetDirectionAny
    \/ Clear

SpecDirection == Init /\ [][NextDirection]_vars

(***************************************************************************)
(* Properties                                                              *)
(***************************************************************************)
memberOf(i, j) ==
    \E k \in 1..Len(subGraphs[j].nodes) : subGraphs[j].nodes[k] = subGraphs[i].id

\* A contains B and B contains A, or a subgraph lists itself
HasMembershipCycle ==
    \E i, j \in 1..Len(subGraphs) : memberOf(i, j) /\ memberOf(j, i)

\* C1: whatever the subgraph registry holds, a membership cycle included, a call
\* of indexNodes() stops: the walk ends within the steps that MaxVisits + 2 calls
\* of indexNodes2 can take, and the counter never passes the cap by more than one.
C1_IndexNodesTerminates ==
    lastCall.op = "indexNodes" => (lastCall.halted /\ secCount <= MaxVisits + 1)

C1_CycleReachedCap ==
    /\ lastCall.op = "indexNodes"
    /\ lastCall.halted
    /\ HasMembershipCycle
    /\ secCount = MaxVisits + 1

\* C2: when the walk passes the cap, indexNodes() returns normally, no error
\* being raised at any level of the recursion.
C2_TruncationIsSilent ==
    (lastCall.op = "indexNodes" /\ secCount > MaxVisits) => lastCall.thrown = "none"

\* C3: the position cross-reference table holds at most 2000 entries: no entry
\* is written at index 2000 or above.
C3_TableBelowCap == Len(posCrossRef) <= MaxVisits

isBlank(s) == Trim(s) = <<>>

\* C4: the member list of every registered subgraph holds no blank string and
\* no stored (normalized) id twice.
C4_MembersNoBlankNoDuplicate ==
    \A i \in 1..Len(subGraphs) :
        LET nodes == subGraphs[i].nodes
        IN  /\ \A j \in 1..Len(nodes) : ~isBlank(nodes[j])
            /\ \A j, k \in 1..Len(nodes) : j # k => nodes[j] # nodes[k]

\* C5: no two records of the subgraph list carry the same id, so that the
\* id-keyed lookup and the positional search by id designate the same record.
C5_SubGraphIdsUnique ==
    /\ \A i, j \in 1..Len(subGraphs) : i # j => subGraphs[i].id # subGraphs[j].id
    /\ \A id \in DOMAIN subGraphLookup :
         subGraphLookup[id] = getPosForId(subGraphs, id)

\* what addLink fixes of an edge: updateLink and updateLinkInterpolate only
\* set style and interpolate
edgeCore(e) ==
    [start |-> e.start, end |-> e.end, type |-> e.type, stroke |-> e.stroke,
     text |-> e.text]

\* C6: since the last clear(), getEdges()[i] is the edge that the i-th addLink
\* call built (a call that raises an exception builds none), whatever other
\* operations ran in between.
C6_EdgesInDeclarationOrder ==
    /\ Len(edges) = Len(linkLog)
    /\ \A i \in 1..Len(edges) : edgeCore(edges[i]) = edgeCore(linkLog[i])

C6_TwoEdgesThenUpdates ==
    /\ Len(edges) = 2
    /\ edges[1].start # edges[2].start
    /\ edges[1].style # UndefinedArr
    /\ edges[2].interpolate # Undefined
    /\ lastCall.op \notin {"addLink", "updateLink", "updateLinkInterpolate"}

\* C7: the first firstGraph() call after the start or after a clear() returns
\* true, every later one returns false until the next clear(), and the latch is
\* set exactly as long as no firstGraph() call was made since then.
C7_FirstGraphLatch ==
    /\ lastCall.op = "firstGraph" => (lastCall.ret <=> (fgCalls = 1))
    /\ firstGraphFlag <=> (fgCalls = 0)

C7_SecondCallFalse ==
    /\ lastCall.op = "firstGraph"
    /\ fgCalls = 2
    /\ lastCall.ret = FALSE
    /\ diagramSize > 0

S_subGraph0 == <<"s", "u", "b", "G", "r", "a", "p", "h", "0">>

\* C8: after clear() the vertex, edge, class and subgraph registries are empty,
\* no id has a tooltip, the edge defaults are unset, and an id-less addSubGraph
\* would return "subGraph0".
C8_ClearEmptiesRegistries ==
    lastCall.op = "clear" =>
        /\ vertices = EmptyMap
        /\ edges = <<>>
        /\ classes = EmptyMap
        /\ subGraphs = <<>>
        /\ DOMAIN tooltips = {}
        /\ edgesDefaultStyle = UndefinedArr
        /\ edgesDefaultInterpolate = Undefined
        /\ subGraphId(Undefined, S_t, subCount) = S_subGraph0

C8_ClearedFilledStore ==
    /\ lastCall.op = "clear"
    /\ lastCall.args[1] >= 4

\* C9: after clear(), getDirection() returns the initial, unset direction.
C9_ClearResetsDirection == lastCall.op = "clear" => direction = Undefined

\* the direction of the first of the tests '<', '^', '>', 'v' that matches
firstMatch(tok) ==
    IF MatchesChar(tok, "<") THEN S_RL
    ELSE IF MatchesChar(tok, "^") THEN S_BT
    ELSE IF MatchesChar(tok, ">") THEN S_LR
    ELSE IF MatchesChar(tok, "v") THEN S_TB
    ELSE tok

\* the direction of the last of the tests '<', '^', '>', 'v' that matches
lastMatch(tok) ==
    IF MatchesChar(tok, "v") THEN S_TB
    ELSE IF MatchesChar(tok, ">") THEN S_LR
    ELSE IF MatchesChar(tok, "^") THEN S_BT
    ELSE IF MatchesChar(tok, "<") THEN S_RL
    ELSE tok

\* C10 as stated: for a token that holds several of the characters, the
\* direction is that of the last test, in the order '<', '^', '>', 'v', whose
\* character occurs in the token.
C10_LastMatchWins ==
    lastCall.op = "setDirection" => direction = lastMatch(lastCall.args[1])

\* C10 as amended: the direction is that of the first test, in the order '<',
\* '^', '>', 'v', whose character occurs in the token; a token that holds none
\* of them is stored as it is.
C10_FirstMatchWins ==
    lastCall.op = "setDirection" => direction = firstMatch(lastCall.args[1])

C10_SeveralMatch ==
    /\ lastCall.op = "setDirection"
    /\ MatchesChar(lastCall.args[1], "<")
    /\ MatchesChar(lastCall.args[1], "v")
    /\ direction = S_RL

(***************************************************************************)
(* SpecClass: class targets, links and click bindings on ids that name a   *)
(* vertex, a subgraph, both or neither.                                    *)
(***************************************************************************)
MaxBindings == 1     \* pending click bindings

S_z == <<"z">>
S_az == <<"a", ",", "z">>
S_fn == <<"f", "n">>

\* the id is registered as a vertex or as a subgraph
Registered(_id) ==
    \/ PrefixDigit(_id) \in DOMAIN vertices
    \/ PrefixDigit(_id) \in DOMAIN subGraphLookup

\* every classes list that a call on ids would grow is still below the bound
CanGrowAll(ids) == \A i \in 1..Len(Split(ids)) : CanGrow(PrefixDigit(Split(ids)[i]))

AddVertexClass ==
    /\ S_a \notin DOMAIN vertices
    /\ AddVertex(S_a, S_t, Undefined, UndefinedArr, UndefinedArr)

AddSubGraphClass ==
    /\ Len(subGraphs) < MaxSubGraphs - 1
    /\ AddSubGraph(S_a, <<<<S_b>>>>, S_t)

SetClassAny ==
    \E ids \in {S_a, S_z, S_az} : CanGrowAll(ids) /\ SetClass(ids, S_c)

SetLinkAny ==
    \E ids \in {S_a, S_z} : CanGrowAll(ids) /\ SetLink(ids, S_url, S_tip)

SetClickEventAny ==
    /\ Len(funs) <= MaxBindings
    /\ \E ids \in {S_a, S_z} : CanGrowAll(ids) /\ SetClickEvent(ids, S_fn, S_tip)

NextClass ==
    \/ AddVertexClass
    \/ AddSubGraphClass
    \/ SetClassAny
    \/ SetLinkAny
    \/ SetClickEventAny
    \/ Clear

SpecClass == Init /\ [][NextClass]_vars

\* the vertex id has one more class after the step
VertexGained(id) ==
    /\ id \in DOMAIN vertices
    /\ Len(vertices'[id].classes) > Len(vertices[id].classes)

\* the subgraph that the lookup gives for id has one more class after the step
SubGraphGained(id) ==
    /\ id \in DOMAIN subGraphLookup
    /\ Len(subGraphs'[subGraphLookup[id] + 1].classes)
         > Len(subGraphs[subGraphLookup[id] + 1].classes)

\* C11: a setClass call appends the class, for each id of its list, to exactly
\* one record, the vertex or the subgraph of that id and never both; it changes
\* nothing when no id of the list is registered.
C11_SetClassOneRecord ==
    [][(lastCall'.op = "setClass" /\ lastCall'.thrown = "none") =>
         LET idList == Split(lastCall'.args[1])
         IN  /\ \A i \in 1..Len(idList) :
                  LET id == PrefixDigit(idList[i])
                  IN  /\ ~(VertexGained(id) /\ SubGraphGained(id))
                      /\ Registered(idList[i]) => (VertexGained(id) \/ SubGraphGained(id))
             /\ (\A i \in 1..Len(idList) : ~Registered(idList[i]))
                  => UNCHANGED <<vertices, subGraphs>>]_vars

\* C12: a setClass, setLink or setClickEvent call whose ids are registered
\* neither as a vertex nor as a subgraph changes no vertex, subgraph, tooltip or
\* pending binding, and raises nothing.
C12_UnregisteredIdIgnored ==
    [][(/\ lastCall'.op \in {"setClass", "setLink", "setClickEvent"}
        /\ \A i \in 1..Len(Split(lastCall'.args[1])) :
             ~Registered(Split(lastCall'.args[1])[i]))
       => /\ UNCHANGED <<vertices, subGraphs, subGraphLookup, tooltips, funs>>
          /\ lastCall'.thrown = "none"]_vars

(***************************************************************************)
(* SpecVertex: repeated declarations of a vertex, with and without text,   *)
(* the text being plain, empty or an empty pair of quotes.                 *)
(***************************************************************************)
S_quotes == <<"\"", "\"">>

\* the styles list that a call on _id would grow is still below the bound
CanStyle(_id) ==
    PrefixDigit(_id) \in DOMAIN vertices =>
        Len(vertices[PrefixDigit(_id)].styles) < MaxList

AddVertexAny ==
    \E _id \in {S_a, S_1a} :
      \E text \in {Undefined, S_t, <<>>, S_quotes} :
        \E style \in {UndefinedArr, <<S_stroke>>} :
          /\ style # UndefinedArr => CanStyle(_id)
          /\ AddVertex(_id, text, Undefined, style, UndefinedArr)

NextVertex ==
    \/ AddVertexAny
    \/ Clear

SpecVertex == Init /\ [][NextVertex]_vars

\* C13: an addVertex call without text on an id that is already registered
\* (whose record therefore holds a text) leaves the text of the record as it
\* was, the empty string included.
C13_OmittedTextKeepsText ==
    [][(/\ lastCall'.op = "addVertex"
        /\ lastCall'.args[2] = Undefined
        /\ PrefixDigit(lastCall'.args[1]) \in DOMAIN vertices)
       => vertices'[PrefixDigit(lastCall'.args[1])].text
            = vertices[PrefixDigit(lastCall'.args[1])].text]_vars

\* C14: no addSubGraph call raises an exception; a call without id returns
\* "subGraph" followed by the value the sequence counter had, and the record
\* registered last carries the returned id.
C14_AddSubGraphNeverThrows ==
    lastCall.op = "addSubGraph" =>
        /\ lastCall.thrown = "none"
        /\ lastCall.args[1] = Undefined =>
             lastCall.ret = S_subGraph \o NumToStr(subCount - 1)
        /\ subGraphs[Len(subGraphs)].id = lastCall.ret
        /\ lastCall.ret \in DOMAIN subGraphLookup

\* the entries of the flattened member lists that are not blank and did not
\* occur before
FirstOccurrences(f) ==
    {i \in 1..Len(f) : ~isBlank(f[i]) /\ \A j \in 1..(i - 1) : f[j] # f[i]}

\* C15: the member list that addSubGraph stores holds, in their order, the
\* first occurrences of the non-blank raw ids of the flattened member lists,
\* each in its stored (normalized) form: none is lost, none occurs twice as a
\* raw id, none moves.
C15_MembersFirstOccurrenceOrder ==
    (lastCall.op = "addSubGraph" /\ lastCall.thrown = "none") =>
        LET f == Flatten(lastCall.args[2])
            K == FirstOccurrences(f)
            nodes == subGraphs[Len(subGraphs)].nodes
        IN  /\ Len(nodes) = Cardinality(K)
            /\ \A i \in K :
                 nodes[Cardinality({j \in K : j <= i})] = PrefixDigit(f[i])

C15_RepeatedMemberKeptOnce ==
    /\ lastCall.op = "addSubGraph"
    /\ lastCall.thrown = "none"
    /\ Flatten(lastCall.args[2]) = <<S_a, S_b, S_a, S_c>>
    /\ subGraphs[Len(subGraphs)].nodes = <<S_a, S_b, S_c>>

(***************************************************************************)
(* SpecLinks: link styles on indexed edges and on the "default" sentinel,  *)
(* in every mix and order.                                                 *)
(***************************************************************************)
S_fillRed == <<"f", "i", "l", "l", ":", "r", "e", "d">>

UpdateLinkAny ==
    \E positions \in {<<S_default>>, <<S_0>>, <<S_default, S_0>>,
                      <<S_0, S_default>>, <<S_1, S_0>>} :
      \E style \in {<<S_stroke>>, <<S_fillRed>>} : UpdateLink(positions, style)

NextLinks ==
    \/ AddLinkEdges
    \/ UpdateLinkAny
    \/ UpdateLinkInterpolateSmall
    \/ Clear

SpecLinks == Init /\ [][NextLinks]_vars

\* the style list holds a fill declaration
HasFill(style) == style # UndefinedArr /\ isSubstringInArray(S_fill, style) # -1

\* C16: after an updateLink call that returns, the style list of every edge
\* named in positions and, when positions names the sentinel, the default style
\* list hold a fill declaration.
C16_StoredStyleHasFill ==
    (lastCall.op = "updateLink" /\ lastCall.thrown = "none") =>
        LET positions == lastCall.args[1]
        IN  \A i \in 1..Len(positions) :
              IF positions[i] = S_default
              THEN HasFill(edgesDefaultStyle)
              ELSE HasFill(edges[StrToNum(positions[i]) + 1].style)

(***************************************************************************)
(* SpecTree: acyclic subgraph hierarchies of up to MaxSubGraphs + 1        *)
(* subgraphs, indexed, cleared and built again.                            *)
(***************************************************************************)
S_R == <<"R">>

\* <<id, member lists>> of the addSubGraph calls: B is a leaf, A holds B, R
\* holds A, a subgraph named "none" and B; the subgraph named "none" holds B
TreeCalls ==
    {<<S_B, <<<<S_a>>>>>>,
     <<S_A, <<<<S_a, S_B>>>>>>,
     <<S_none, <<<<S_B>>>>>>,
     <<S_R, <<<<S_A>>, <<S_none, S_B>>>>>>}

AddSubGraphTree ==
    /\ Len(subGraphs) < MaxSubGraphs + 1
    /\ \E c \in TreeCalls : AddSubGraph(c[1], c[2], S_t)

NextTree ==
    \/ AddSubGraphTree
    \/ IndexNodes
    \/ Clear

SpecTree == Init /\ [][NextTree]_vars

\* the positions of a depth-first walk from pos that records a subgraph before
\* its children and takes the children in member-list order; depth bounds the
\* nesting (a hierarchy of n subgraphs nests at most n deep)
RECURSIVE PreOrder(_, _, _)
RECURSIVE PreOrderMembers(_, _, _, _)
PreOrder(sgs, pos, depth) ==
    IF depth = 0 THEN <<pos>>
    ELSE <<pos>> \o PreOrderMembers(sgs, sgs[pos + 1].nodes, 1, depth - 1)

PreOrderMembers(sgs, nodes, k, depth) ==
    IF k > Len(nodes) THEN <<>>
    ELSE (IF getPosForId(sgs, nodes[k]) >= 0
          THEN PreOrder(sgs, getPosForId(sgs, nodes[k]), depth)
          ELSE <<>>)
         \o PreOrderMembers(sgs, nodes, k + 1, depth)

\* C17: after indexNodes() on an acyclic hierarchy, getDepthFirstPos(0),
\* getDepthFirstPos(1), ... are the positions, in pre-order, of the subgraphs
\* reachable from the subgraph registered last.
C17_PreOrderFromLastRegistered ==
    (lastCall.op = "indexNodes" /\ subGraphs # <<>>) =>
        LET expected == PreOrder(subGraphs, Len(subGraphs) - 1, Len(subGraphs))
        IN  \A n \in 0..(Len(expected) - 1) :
              /\ HasDepthFirstPos(posCrossRef, n)
              /\ getDepthFirstPos(posCrossRef, n) = expected[n + 1]

\* C18: after clear() no index has a depth-first position, and after
\* indexNodes() only the indices that this run wrote have one.
C18_NoStaleEntries ==
    /\ lastCall.op = "clear" => ~HasDepthFirstPos(posCrossRef, 0)
    /\ lastCall.op = "indexNodes" => ~HasDepthFirstPos(posCrossRef, secCount + 1)

(***************************************************************************)
(* SpecLinkText: addLink with and without a linktext argument, the type    *)
(* descriptor carrying a text, carrying none, or being absent.             *)
(***************************************************************************)
S_x == <<"x">>

\* the type descriptor of an arrow with the text "t"
ArrowText == [defined |-> TRUE, type |-> S_arrow, stroke |-> S_normal, text |-> S_t]

LinkTexts == {Undefined, S_x, S_t}

AddLinkAny ==
    /\ Len(edges) < MaxEdges
    /\ \E _start \in {S_a, S_1} :
         \E type \in {Arrow, ArrowText, NoType} :
           \E linktext \in LinkTexts : AddLink(_start, S_b, type, linktext)

NextLinkText ==
    \/ AddLinkAny
    \/ UpdateLinkInterpolateSmall
    \/ Clear

SpecLinkText == Init /\ [][NextLinkText]_vars

\* C19: an addLink call that returns leaves the state that it would leave with
\* any other linktext argument: the edge it appends is the same for every
\* linktext, its text is the text of the type descriptor (empty when the
\* descriptor has none), and nothing but the edge list changes.
C19_LinkTextIgnored ==
    [][(lastCall'.op = "addLink" /\ lastCall'.thrown = "none") =>
         LET a == lastCall'.args
         IN  /\ \A lt \in LinkTexts :
                  edges' = Append(edges, buildEdge(a[1], a[2], a[4], lt, securityLevel))
             /\ edges'[Len(edges')].text
                  = (IF a[4].text = Undefined THEN <<>> ELSE a[4].text)
             /\ UNCHANGED <<edgesDefaultStyle, edgesDefaultInterpolate, vertices,
                            classes, subGraphs, subGraphLookup, subCount, tooltips,
                            funs, secCount, posCrossRef, firstGraphFlag, direction>>]_vars

C19_LinkTextGivenTextEmpty ==
    /\ lastCall.op = "addLink"
    /\ lastCall.thrown = "none"
    /\ lastCall.args[3] = S_x
    /\ lastCall.args[4].text = Undefined
    /\ edges[Len(edges)].text = <<>>

(***************************************************************************)
(* SpecIds: vertices, edges and subgraphs declared with ids that start     *)
(* with a digit and with ids that do not, on a diagram of up to            *)
(* MaxElements + 1 records.                                                *)
(***************************************************************************)
S_b1 == <<"b", "1">>

AddVertexIds ==
    /\ diagramSize < MaxElements + 1
    /\ \E _id \in {S_1a, S_a, S_b1} :
         AddVertex(_id, Undefined, Undefined, UndefinedArr, UndefinedArr)

AddLinkIds ==
    /\ diagramSize < MaxElements + 1
    /\ \E _start \in {S_1a, S_a} : \E _end \in {S_1, S_b} :
         AddLink(_start, _end, Arrow, Undefined)

AddSubGraphIds ==
    /\ diagramSize < MaxElements + 1
    /\ \E _id \in {S_1, S_A, Undefined} :
         \E list \in {<<<<S_1a, S_a>>>>, <<<<S_b>>, <<S_1>>>>} :
           AddSubGraph(_id, list, S_t)

NextIds ==
    \/ AddVertexIds
    \/ AddLinkIds
    \/ AddSubGraphIds
    \/ Clear

SpecIds == Init /\ [][NextIds]_vars

\* the id does not start with a decimal digit
Canonical(id) == ~FirstIsDigit(id)

\* C20: every key of the vertex registry and the id of its record, both
\* endpoints of every edge, every subgraph id and every subgraph member is
\* canonical: none starts with a decimal digit.
C20_StoredIdsCanonical ==
    /\ \A k \in DOMAIN vertices : Canonical(k) /\ vertices[k].id = k
    /\ \A i \in 1..Len(edges) : Canonical(edges[i].start) /\ Canonical(edges[i].end)
    /\ \A i \in 1..Len(subGraphs) :
         /\ Canonical(subGraphs[i].id)
         /\ \A j \in 1..Len(subGraphs[i].nodes) : Canonical(subGraphs[i].nodes[j])
    /\ \A k \in DOMAIN subGraphLookup : Canonical(k)

C20_DigitIdsStoredPrefixed ==
    /\ S_s1a \in DOMAIN vertices
    /\ S_1a \notin DOMAIN vertices
    /\ Len(edges) = 1
    /\ edges[1].start = S_s1a
    /\ edges[1].end = <<"s", "1">>
    /\ edges[1].end \notin DOMAIN vertices

====
